---- MODULE Spec2Model ----
(***************************************************************************)
(* Model of skills/silicon-paddle-ocr/scripts/ocr_skill.py:                *)
(*   - parse_loc_tags (lines 49-114), step by step, over responses that    *)
(*     are sequences of characters; the regular expressions are matched    *)
(*     character by character and the float arithmetic of the scale        *)
(*     factors is IEEE-754 binary64 (53-bit significand, round to nearest  *)
(*     even), kept in 13-bit limbs;                                        *)
(*   - the batch loop of main (lines 293-324).                             *)
(***************************************************************************)
EXTENDS Integers, Sequences, FiniteSets

\* ------------------------------------------------------------------------
\* Bounds of the model
\* ------------------------------------------------------------------------

\* The number of segments (text followed by markers) a response is built from.
MaxSegments == 2

\* The number of image paths given to the batch loop.
MaxImages == 2

\* ------------------------------------------------------------------------
\* Characters and strings (a string is a sequence of one-character strings)
\* ------------------------------------------------------------------------

DigitChars == <<"0", "1", "2", "3", "4", "5", "6", "7", "8", "9">>

IsDigit(c) == \E d \in 1..10 : DigitChars[d] = c

DigitVal(c) == (CHOOSE d \in 1..10 : DigitChars[d] = c) - 1

\* The character of s at position i, "" outside the string.
At(s, i) == IF i >= 1 /\ i <= Len(s) THEN s[i] ELSE ""

\* int(c) of a decimal digit string (line 65, line 83).
RECURSIVE ParseInt(_)
ParseInt(ds) ==
  IF ds = <<>> THEN 0
  ELSE 10 * ParseInt(SubSeq(ds, 1, Len(ds) - 1)) + DigitVal(ds[Len(ds)])

\* The decimal digits of n >= 0, as the model's marker tokens carry them.
RECURSIVE Digits(_)
Digits(n) ==
  IF n < 10 THEN <<DigitChars[n + 1]>>
  ELSE Digits(n \div 10) \o <<DigitChars[(n % 10) + 1]>>

\* The first position >= j of s that holds no digit: the end of \d+ from j.
RECURSIVE DigitsEnd(_, _)
DigitsEnd(s, j) == IF IsDigit(At(s, j)) THEN DigitsEnd(s, j + 1) ELSE j

\* ------------------------------------------------------------------------
\* The regular expression of line 60: ([^\|<]+?)((?:<\|LOC_\d+\|\>)+)
\* ------------------------------------------------------------------------

LocPrefix == <<"<", "|", "L", "O", "C", "_">>

\* <\|LOC_\d+\|\> at position i: the position after the token, 0 if none.
TokenEnd(s, i) ==
  IF i >= 1 /\ i + 5 <= Len(s) /\ SubSeq(s, i, i + 5) = LocPrefix
  THEN LET e == DigitsEnd(s, i + 6)
       IN  IF e > i + 6 /\ At(s, e) = "|" /\ At(s, e + 1) = ">"
           THEN e + 2 ELSE 0
  ELSE 0

\* A faulty variant of GroupEnd: the quantifier * in place of +.
RECURSIVE GroupEndStar(_, _)
GroupEndStar(s, i) ==
  LET e == TokenEnd(s, i)
  IN  IF e = 0 THEN i ELSE GroupEndStar(s, e)

\* (?:<\|LOC_\d+\|\>)+ at position i, greedy: the position after the last
\* token of the run, 0 if no token starts at i.
RECURSIVE GroupEnd(_, _)
GroupEnd(s, i) ==
  LET e == TokenEnd(s, i)
  IN  IF e = 0 THEN 0
      ELSE LET e2 == GroupEnd(s, e) IN IF e2 = 0 THEN e ELSE e2

\* [^\|<]+? from position p, lazy: the text is s[p..q-1]; the smallest q > p
\* at which the marker group matches, 0 if the text cannot reach one.
RECURSIVE LazyText(_, _, _)
LazyText(s, p, q) ==
  IF q - 1 > Len(s) \/ At(s, q - 1) \in {"|", "<"} THEN 0
  ELSE IF GroupEnd(s, q) # 0 THEN q
  ELSE LazyText(s, p, q + 1)

\* re.findall from position p: the non-overlapping matches, left to right,
\* each the pair of its two groups.
RECURSIVE FindAll(_, _)
FindAll(s, p) ==
  IF p > Len(s) THEN <<>>
  ELSE LET q == LazyText(s, p, p + 1)
       IN  IF q = 0 THEN FindAll(s, p + 1)
           ELSE LET e == GroupEnd(s, q)
                IN  <<[text_chunk |-> SubSeq(s, p, q - 1),
                       loc_tags   |-> SubSeq(s, q, e - 1)]>>
                    \o FindAll(s, e)

\* re.findall(r'LOC_(\d+)', loc_tags) and int() of each (lines 65, 82-83).
RECURSIVE LocValues(_, _)
LocValues(s, i) ==
  IF i > Len(s) THEN <<>>
  ELSE IF i + 4 <= Len(s) /\ SubSeq(s, i, i + 3) = <<"L", "O", "C", "_">>
          /\ IsDigit(s[i + 4])
       THEN LET e == DigitsEnd(s, i + 4)
            IN  <<ParseInt(SubSeq(s, i + 4, e - 1))>> \o LocValues(s, e)
       ELSE LocValues(s, i + 1)

Coords(loc_tags) == LocValues(loc_tags, 1)

\* str.strip() (line 77).
Whitespace == {" ", "\t", "\n"}

RECURSIVE LStrip(_)
LStrip(s) ==
  IF s # <<>> /\ s[1] \in Whitespace THEN LStrip(Tail(s)) ELSE s

RECURSIVE RStrip(_)
RStrip(s) ==
  IF s # <<>> /\ s[Len(s)] \in Whitespace
  THEN RStrip(SubSeq(s, 1, Len(s) - 1)) ELSE s

Strip(s) == RStrip(LStrip(s))

\* ------------------------------------------------------------------------
\* Python floats: IEEE-754 binary64.  A float is zero or
\* (1 + frac / 2^52) * 2^exp, frac being four 13-bit limbs, most significant
\* first.  Division and multiplication round to nearest, ties to even.
\* ------------------------------------------------------------------------

RECURSIVE Pow2(_)
Pow2(k) == IF k <= 0 THEN 1 ELSE 2 * Pow2(k - 1)

Base == Pow2(13)

FZero == [zero |-> TRUE, frac |-> <<0, 0, 0, 0>>, exp |-> 0]

\* The multiplier 1 of lines 71-72 (the int 1: products with it are exact).
FOne == [zero |-> FALSE, frac |-> <<0, 0, 0, 0>>, exp |-> 0]

\* The number of bits of x >= 0.
RECURSIVE BitLen(_)
BitLen(x) == IF x = 0 THEN 0 ELSE 1 + BitLen(x \div 2)

\* floor(log2(w / m)) for w >= m > 0, counting up from n.
RECURSIVE Log2Up(_, _, _)
Log2Up(w, m, n) == IF m * Pow2(n + 1) <= w THEN Log2Up(w, m, n + 1) ELSE n

\* -floor(log2(w / m)) for 0 < w < m, counting up from k.
RECURSIVE Log2Down(_, _, _)
Log2Down(w, m, k) == IF w * Pow2(k) < m THEN Log2Down(w, m, k + 1) ELSE k

\* frac + 1 ulp, carrying into the exponent.
FloatInc(c, n) ==
  IF c[4] + 1 < Base THEN [zero |-> FALSE, frac |-> <<c[1], c[2], c[3], c[4] + 1>>, exp |-> n]
  ELSE IF c[3] + 1 < Base THEN [zero |-> FALSE, frac |-> <<c[1], c[2], c[3] + 1, 0>>, exp |-> n]
  ELSE IF c[2] + 1 < Base THEN [zero |-> FALSE, frac |-> <<c[1], c[2] + 1, 0, 0>>, exp |-> n]
  ELSE IF c[1] + 1 < Base THEN [zero |-> FALSE, frac |-> <<c[1] + 1, 0, 0, 0>>, exp |-> n]
  ELSE [zero |-> FALSE, frac |-> <<0, 0, 0, 0>>, exp |-> n + 1]

\* w / m of two ints, w >= 0, m > 0 (true division, correctly rounded).
FloatDiv(w, m) ==
  IF w = 0 THEN FZero
  ELSE
    LET n  == IF w >= m THEN Log2Up(w, m, 0) ELSE 0 - Log2Down(w, m, 1)
        x  == IF n < 0 THEN w * Pow2(0 - n) ELSE w
        y  == IF n > 0 THEN m * Pow2(n) ELSE m
        r0 == x - y
        c1 == (r0 * Base) \div y
        r1 == (r0 * Base) % y
        c2 == (r1 * Base) \div y
        r2 == (r1 * Base) % y
        c3 == (r2 * Base) \div y
        r3 == (r2 * Base) % y
        c4 == (r3 * Base) \div y
        r4 == (r3 * Base) % y
        up == 2 * r4 > y \/ (2 * r4 = y /\ c4 % 2 = 1)
    IN  IF up THEN FloatInc(<<c1, c2, c3, c4>>, n)
        ELSE [zero |-> FALSE, frac |-> <<c1, c2, c3, c4>>, exp |-> n]

\* v * f of an int 0 <= v < 2^12 and a float (the int converts exactly).
FloatMul(v, f) ==
  IF v = 0 \/ f.zero THEN FZero
  ELSE
    LET c   == f.frac
        t4  == v * c[4]
        t3  == v * c[3] + (t4 \div Base)
        t2  == v * c[2] + (t3 \div Base)
        t1  == v * c[1] + (t2 \div Base)
        d0  == v + (t1 \div Base)
        d1  == t1 % Base
        d2  == t2 % Base
        d3  == t3 % Base
        d4  == t4 % Base
        s   == BitLen(d0) - 1
        low == d4 % Pow2(s)
        up  == s > 0 /\ (2 * low > Pow2(s)
                         \/ (2 * low = Pow2(s) /\ (d4 \div Pow2(s)) % 2 = 1))
        e4  == d4 - low + (IF up THEN Pow2(s) ELSE 0)
        e3  == d3 + (e4 \div Base)
        e2  == d2 + (e3 \div Base)
        e1  == d1 + (e2 \div Base)
        f0  == d0 + (e1 \div Base)
        f1  == e1 % Base
        f2  == e2 % Base
        f3  == e3 % Base
        f4  == e4 % Base
        s2  == IF f0 \div Pow2(s + 1) > 0 THEN s + 1 ELSE s
        m   == Pow2(s2)
        k   == Base \div m
    IN  [zero |-> FALSE,
         frac |-> <<(f0 % m) * k + (f1 \div m), (f1 % m) * k + (f2 \div m),
                    (f2 % m) * k + (f3 \div m), (f3 % m) * k + (f4 \div m)>>,
         exp  |-> f.exp + s2]

\* The value of a sequence of limbs, most significant first.
RECURSIVE LimbsVal(_)
LimbsVal(ls) ==
  IF ls = <<>> THEN 0
  ELSE Base * LimbsVal(SubSeq(ls, 1, Len(ls) - 1)) + ls[Len(ls)]

\* int(f) of a float 0 <= f < 2^26: truncation toward zero.
IntTrunc(f) ==
  IF f.zero \/ f.exp < 0 THEN 0
  ELSE LET sh == 52 - f.exp
       IN  LimbsVal(SubSeq(<<1>> \o f.frac, 1, 5 - (sh \div 13))) \div Pow2(sh % 13)

\* int(c * scale) (lines 90-91, 95-98).
ToPixel(c, scale) == IntTrunc(FloatMul(c, scale))

\* ------------------------------------------------------------------------
\* parse_loc_tags: the scale factors and the boxes
\* ------------------------------------------------------------------------

\* The fallback of line 68, used when no marker value was collected.
FallbackMaxLoc == 972

RECURSIVE PyMin(_)
PyMin(vs) ==
  IF Len(vs) = 1 THEN vs[1]
  ELSE LET m == PyMin(Tail(vs)) IN IF vs[1] <= m THEN vs[1] ELSE m

\* max() of a non-empty list.
RECURSIVE PyMax(_)
PyMax(vs) ==
  IF Len(vs) = 1 THEN vs[1]
  ELSE LET m == PyMax(Tail(vs)) IN IF vs[1] >= m THEN vs[1] ELSE m

\* A faulty variant of MaxLoc: min in place of max.
MaxLocMin(values) == IF values # <<>> THEN PyMin(values) ELSE FallbackMaxLoc

\* max_loc = max(all_loc_values) if all_loc_values else 972 (line 68).
MaxLoc(values) == IF values # <<>> THEN PyMax(values) ELSE FallbackMaxLoc

\* A faulty variant of Scale: the guard extended to the image dimension.
ScaleGuardDim(dim, maxloc) ==
  IF maxloc > 0 /\ dim > 0 THEN FloatDiv(dim, maxloc) ELSE FOne

\* img_width / max_loc if max_loc > 0 else 1 (lines 71-72).
Scale(dim, maxloc) == IF maxloc > 0 THEN FloatDiv(dim, maxloc) ELSE FOne

\* A faulty variant of ZeroBox: a box of two points.
ZeroBoxShort == <<<<0, 0>>, <<0, 0>>>>

\* The box of a group without enough coordinates (line 107).
ZeroBox == <<<<0, 0>>, <<0, 0>>, <<0, 0>>, <<0, 0>>>>

\* A faulty variant of BBoxCorners: the corners in the order of the diagonal.
BBoxCornersDiagonal(x1, y1, x2, y2) ==
  <<<<x1, y1>>, <<x2, y2>>, <<x2, y1>>, <<x1, y2>>>>

\* The four corners of a bounding box (lines 99-104).
BBoxCorners(x1, y1, x2, y2) ==
  <<<<x1, y1>>, <<x2, y1>>, <<x2, y2>>, <<x1, y2>>>>

\* A faulty variant of BuildBox: the last coordinates of the group in place of
\* the first ones (coords[-8:], coords[-4:]).
BuildBoxLast(coords, xs, ys) ==
  LET n == Len(coords)
  IN  IF n >= 8
      THEN <<<<ToPixel(coords[n - 7], xs), ToPixel(coords[n - 6], ys)>>,
             <<ToPixel(coords[n - 5], xs), ToPixel(coords[n - 4], ys)>>,
             <<ToPixel(coords[n - 3], xs), ToPixel(coords[n - 2], ys)>>,
             <<ToPixel(coords[n - 1], xs), ToPixel(coords[n], ys)>>>>
      ELSE IF n >= 4
      THEN BBoxCorners(ToPixel(coords[n - 3], xs), ToPixel(coords[n - 2], ys),
                       ToPixel(coords[n - 1], xs), ToPixel(coords[n], ys))
      ELSE ZeroBox

\* The box of one marker group (lines 86-107).
BuildBox(coords, xs, ys) ==
  IF Len(coords) >= 8
  THEN <<<<ToPixel(coords[1], xs), ToPixel(coords[2], ys)>>,
         <<ToPixel(coords[3], xs), ToPixel(coords[4], ys)>>,
         <<ToPixel(coords[5], xs), ToPixel(coords[6], ys)>>,
         <<ToPixel(coords[7], xs), ToPixel(coords[8], ys)>>>>
  ELSE IF Len(coords) >= 4
  THEN BBoxCorners(ToPixel(coords[1], xs), ToPixel(coords[2], ys),
                   ToPixel(coords[3], xs), ToPixel(coords[4], ys))
  ELSE ZeroBox

\* The record appended for one pair (lines 109-112).
TextRecord(pair, xs, ys) ==
  [text |-> Strip(pair.text_chunk),
   box  |-> BuildBox(Coords(pair.loc_tags), xs, ys)]

\* The first loop (lines 63-66) over all pairs.
RECURSIVE AllLocValues(_)
AllLocValues(pairs) ==
  IF pairs = <<>> THEN <<>>
  ELSE Coords(pairs[1].loc_tags) \o AllLocValues(Tail(pairs))

\* The second loop (lines 76-112) over all pairs.
RECURSIVE BuildTexts(_, _, _)
BuildTexts(pairs, xs, ys) ==
  IF pairs = <<>> THEN <<>>
  ELSE IF Strip(pairs[1].text_chunk) = <<>>
       THEN BuildTexts(Tail(pairs), xs, ys)
       ELSE <<TextRecord(pairs[1], xs, ys)>> \o BuildTexts(Tail(pairs), xs, ys)

\* parse_loc_tags as a function of its arguments (lines 58-114).
parse_loc_tags(c, size) ==
  LET pairs == FindAll(c, 1)
      ml    == MaxLoc(AllLocValues(pairs))
  IN  BuildTexts(pairs, Scale(size[1], ml), Scale(size[2], ml))

\* ------------------------------------------------------------------------
\* The responses and image sizes the model runs parse_loc_tags on
\* ------------------------------------------------------------------------

\* One marker token, <|LOC_n|>.
Marker(n) == LocPrefix \o Digits(n) \o <<"|", ">">>

RECURSIVE Markers(_)
Markers(vs) == IF vs = <<>> THEN <<>> ELSE Marker(vs[1]) \o Markers(Tail(vs))

\* The segments a response is concatenated from: a text and its markers.
Segments ==
  { <<"a">> \o Markers(<<11, 22, 44, 88>>),
    <<" ", "b", " ">> \o Markers(<<0, 0, 88, 0, 88, 44, 0, 44>>),
    Markers(<<99>>),
    Markers(<<5>>),
    <<" ">> \o Markers(<<0>>),
    <<"c", "|", "d">> \o Markers(<<5, 6>>),
    <<"f", "<", "g", "\n">> \o Markers(<<49, 0, 49, 49, 0, 49, 7, 7, 3>>),
    <<"e">> }

\* The concatenations of at most n segments.
RECURSIVE Responses(_)
Responses(n) ==
  IF n = 0 THEN {<<>>}
  ELSE LET r == Responses(n - 1) IN r \cup {a \o g : a \in r, g \in Segments}

Sizes == {<<480, 480>>, <<640, 480>>, <<1, 300>>, <<0, 480>>, <<640, 0>>}

\* The response of the documented scenario.
HelloWorld ==
  <<"H", "e", "l", "l", "o">> \o Markers(<<100, 100, 200, 200>>)
  \o <<"W", "o", "r", "l", "d">> \o Markers(<<972, 0, 972, 100>>)

Inputs ==
  (Responses(MaxSegments) \X Sizes)
  \cup {<<HelloWorld, <<972, 972>>>>, <<<<>>, <<500, 300>>>>}

\* ------------------------------------------------------------------------
\* State
\* ------------------------------------------------------------------------

VARIABLES
  content,           \* parse_loc_tags: the response
  image_size,        \* parse_loc_tags: (img_width, img_height)
  pc,                \* parse_loc_tags: the position in the function
  text_coord_pairs,  \* line 60
  all_loc_values,    \* line 63
  max_loc,           \* line 68 (-1: not yet bound)
  x_scale,           \* line 71
  y_scale,           \* line 72
  texts,             \* line 74
  i,                 \* the index of the pair either loop is at
  image_files,       \* main: the paths of the batch
  fate,              \* main: what happens to each path (the environment)
  j,                 \* main: the index of the path the loop is at
  results,           \* main: line 294
  mpc                \* main: the position in the batch loop

parseVars == <<content, image_size, pc, text_coord_pairs, all_loc_values,
               max_loc, x_scale, y_scale, texts, i>>

mainVars == <<image_files, fate, j, results, mpc>>

vars == <<parseVars, mainVars>>

img_width == image_size[1]

img_height == image_size[2]

\* ------------------------------------------------------------------------
\* parse_loc_tags, step by step
\* ------------------------------------------------------------------------

MainIdle ==
  /\ image_files = <<>>
  /\ fate = <<>>
  /\ j = 0
  /\ results = <<>>
  /\ mpc = "idle"

Init ==
  /\ \E inp \in Inputs : content = inp[1] /\ image_size = inp[2]
  /\ pc = "findall"
  /\ text_coord_pairs = <<>>
  /\ all_loc_values = <<>>
  /\ max_loc = -1
  /\ x_scale = FZero
  /\ y_scale = FZero
  /\ texts = <<>>
  /\ i = 0
  /\ MainIdle

\* Line 60.
FindPairs ==
  /\ pc = "findall"
  /\ text_coord_pairs' = FindAll(content, 1)
  /\ all_loc_values' = <<>>
  /\ i' = 1
  /\ pc' = "scan"
  /\ UNCHANGED <<content, image_size, max_loc, x_scale, y_scale, texts, mainVars>>

\* One iteration of the loop of lines 64-66.
ScanPair ==
  /\ pc = "scan"
  /\ i <= Len(text_coord_pairs)
  /\ all_loc_values' = all_loc_values \o Coords(text_coord_pairs[i].loc_tags)
  /\ i' = i + 1
  /\ UNCHANGED <<content, image_size, pc, text_coord_pairs, max_loc, x_scale,
                 y_scale, texts, mainVars>>

\* Lines 68-74, after the loop.
ComputeScale ==
  /\ pc = "scan"
  /\ i > Len(text_coord_pairs)
  /\ max_loc' = MaxLoc(all_loc_values)
  /\ x_scale' = Scale(img_width, max_loc')
  /\ y_scale' = Scale(img_height, max_loc')
  /\ texts' = <<>>
  /\ i' = 1
  /\ pc' = "build"
  /\ UNCHANGED <<content, image_size, text_coord_pairs, all_loc_values, mainVars>>

\* Lines 77-79: a pair whose text is empty after strip() is skipped.
SkipEmpty ==
  /\ pc = "build"
  /\ i <= Len(text_coord_pairs)
  /\ Strip(text_coord_pairs[i].text_chunk) = <<>>
  /\ i' = i + 1
  /\ UNCHANGED <<content, image_size, pc, text_coord_pairs, all_loc_values,
                 max_loc, x_scale, y_scale, texts, mainVars>>

\* Lines 77-112: one record is appended.
AppendRecord ==
  /\ pc = "build"
  /\ i <= Len(text_coord_pairs)
  /\ Strip(text_coord_pairs[i].text_chunk) # <<>>
  /\ texts' = Append(texts, TextRecord(text_coord_pairs[i], x_scale, y_scale))
  /\ i' = i + 1
  /\ UNCHANGED <<content, image_size, pc, text_coord_pairs, all_loc_values,
                 max_loc, x_scale, y_scale, mainVars>>

\* Line 114.
Return ==
  /\ pc = "build"
  /\ i > Len(text_coord_pairs)
  /\ pc' = "done"
  /\ UNCHANGED <<content, image_size, text_coord_pairs, all_loc_values,
                 max_loc, x_scale, y_scale, texts, i, mainVars>>

Next ==
  \/ FindPairs
  \/ ScanPair
  \/ ComputeScale
  \/ SkipEmpty
  \/ AppendRecord
  \/ Return

Spec == Init /\ [][Next]_vars

\* ------------------------------------------------------------------------
\* The batch loop of main (lines 293-324)
\* ------------------------------------------------------------------------

\* The image paths of the model: a directory and a file name.
Paths == {<<"a", "x.png">>, <<"b", "x.png">>, <<"a", "y.png">>}

\* What the environment does with a path: the OCR call returns, the OCR call
\* raises, or the file is gone when the loop reaches it.
Fates == {"ok", "raise", "missing"}

\* Path(image_path).name (lines 309, 324).
FileName(path) == path[2]

\* The dict ocr_image returns for a path (lines 187-192); its other fields
\* are functions of the image.
OcrResult(path) == [image_path |-> path]

\* {"error": str(e)} (line 324).
ErrorEntry == [error |-> "ocr_image raised"]

\* results[key] = value.
DictSet(d, key, value) ==
  [n \in (DOMAIN d) \cup {key} |-> IF n = key THEN value ELSE d[n]]

\* The sequences over S of length 1 to n.
RECURSIVE SeqsUpTo(_, _)
SeqsUpTo(S, n) ==
  IF n <= 1 THEN {<<x>> : x \in S}
  ELSE LET r == SeqsUpTo(S, n - 1)
       IN  r \cup {Append(q, x) : q \in r, x \in S}

ParseIdle ==
  /\ content = <<>>
  /\ image_size = <<0, 0>>
  /\ pc = "idle"
  /\ text_coord_pairs = <<>>
  /\ all_loc_values = <<>>
  /\ max_loc = -1
  /\ x_scale = FZero
  /\ y_scale = FZero
  /\ texts = <<>>
  /\ i = 0

\* The state at line 294: image_files is not empty (line 289).
InitMain ==
  /\ image_files \in SeqsUpTo(Paths, MaxImages)
  /\ fate \in [Paths -> Fates]
  /\ j = 1
  /\ results = <<>>
  /\ mpc = "loop"
  /\ ParseIdle

\* Lines 296-298: a path that does not exist is skipped.
SkipMissing ==
  /\ mpc = "loop"
  /\ j <= Len(image_files)
  /\ fate[image_files[j]] = "missing"
  /\ j' = j + 1
  /\ UNCHANGED <<image_files, fate, results, mpc, parseVars>>

\* Lines 300-320: ocr_image returned.
ProcessOk ==
  /\ mpc = "loop"
  /\ j <= Len(image_files)
  /\ fate[image_files[j]] = "ok"
  /\ results' = DictSet(results, FileName(image_files[j]), OcrResult(image_files[j]))
  /\ j' = j + 1
  /\ UNCHANGED <<image_files, fate, mpc, parseVars>>

\* Lines 322-324: ocr_image raised.
ProcessError ==
  /\ mpc = "loop"
  /\ j <= Len(image_files)
  /\ fate[image_files[j]] = "raise"
  /\ results' = DictSet(results, FileName(image_files[j]), ErrorEntry)
  /\ j' = j + 1
  /\ UNCHANGED <<image_files, fate, mpc, parseVars>>

\* The loop of line 295 ends.
EndLoop ==
  /\ mpc = "loop"
  /\ j > Len(image_files)
  /\ mpc' = "done"
  /\ UNCHANGED <<image_files, fate, j, results, parseVars>>

NextMain ==
  \/ SkipMissing
  \/ ProcessOk
  \/ ProcessError
  \/ EndLoop

SpecMain == InitMain /\ [][NextMain]_vars

\* ------------------------------------------------------------------------
\* What the properties are stated with
\* ------------------------------------------------------------------------

\* The values of all marker tokens <|LOC_n|> of s from position p on,
\* wherever they stand.
RECURSIVE TokenValues(_, _)
TokenValues(s, p) ==
  IF p > Len(s) THEN <<>>
  ELSE LET e == TokenEnd(s, p)
       IN  IF e = 0 THEN TokenValues(s, p + 1)
           ELSE <<ParseInt(SubSeq(s, p + 6, e - 3))>> \o TokenValues(s, e)

\* The first position >= p of s at which a marker token starts, Len(s) + 1
\* if there is none.
RECURSIVE NextToken(_, _)
NextToken(s, p) ==
  IF p > Len(s) \/ TokenEnd(s, p) # 0 THEN p ELSE NextToken(s, p + 1)

\* The text fragments of s from position p on, each the whole text between
\* the preceding maximal run of marker tokens (or the start) and the next
\* run, trimmed; those empty after trimming and the trailing text left out.
RECURSIVE Fragments(_, _)
Fragments(s, p) ==
  IF p > Len(s) THEN <<>>
  ELSE LET t == NextToken(s, p)
       IN  IF t > Len(s) THEN <<>>
           ELSE LET frag == Strip(SubSeq(s, p, t - 1))
                IN  (IF frag = <<>> THEN <<>> ELSE <<frag>>)
                    \o Fragments(s, GroupEnd(s, t))

\* The position after the last marker token of s, 1 if s holds none.
RECURSIVE LastTokenEnd(_, _, _)
LastTokenEnd(s, p, last) ==
  IF p > Len(s) THEN last
  ELSE LET e == TokenEnd(s, p)
       IN  IF e = 0 THEN LastTokenEnd(s, p + 1, last)
           ELSE LastTokenEnd(s, e, e)

\* s without the text that follows its last marker token.
CutTrailing(s) == SubSeq(s, 1, LastTokenEnd(s, 1, 1) - 1)

\* s with the extra markers of every captured group removed: the markers
\* after the 8th of a group of 8 or more, the 5th to 7th of a group of 4
\* to 7.
RECURSIVE StripExtras(_, _)
StripExtras(s, p) ==
  IF p > Len(s) THEN <<>>
  ELSE LET q == LazyText(s, p, p + 1)
       IN  IF q = 0 THEN <<s[p]>> \o StripExtras(s, p + 1)
           ELSE LET e    == GroupEnd(s, q)
                    cs   == Coords(SubSeq(s, q, e - 1))
                    keep == IF Len(cs) >= 8 THEN 8
                            ELSE IF Len(cs) >= 4 THEN 4 ELSE Len(cs)
                IN  SubSeq(s, p, q - 1) \o Markers(SubSeq(cs, 1, keep))
                    \o StripExtras(s, e)

HasText(pair) == Strip(pair.text_chunk) # <<>>

\* The pairs that give a record, in order: record k comes from pair k.
RecordPairs == SelectSeq(text_coord_pairs, HasText)

\* The marker values of the group record k comes from.
GroupOf(k) == Coords(RecordPairs[k].loc_tags)

ScaleBound == pc \in {"build", "done"}

\* ------------------------------------------------------------------------
\* C1
\* ------------------------------------------------------------------------

\* C1 (as claimed): max_loc is the maximum over the values of all marker
\* tokens of the response, 972 if the response holds no marker token, and
\* the scale factors are w / max_loc and h / max_loc, 1 if max_loc is 0.
C1_MaxOverAllGroups ==
  ScaleBound =>
    LET all == TokenValues(content, 1)
        m   == IF all = <<>> THEN 972 ELSE PyMax(all)
    IN  /\ max_loc = m
        /\ x_scale = (IF m = 0 THEN FOne ELSE FloatDiv(img_width, m))
        /\ y_scale = (IF m = 0 THEN FOne ELSE FloatDiv(img_height, m))

\* ------------------------------------------------------------------------
\* C2
\* ------------------------------------------------------------------------

\* C2 (as claimed): a zero image width or height makes the scale factor of
\* that axis 1.
C2_ZeroDimScaleIsOne ==
  ScaleBound =>
    /\ img_width = 0 => x_scale = FOne
    /\ img_height = 0 => y_scale = FOne

\* C2 (amended): with a zero image width or height nothing divides by zero
\* and the call returns one record per non-empty captured text, but the
\* scale factor of that axis is 0 when max_loc > 0 and 1 only when max_loc
\* is 0; either way every coordinate of that axis is 0.
C2_ZeroDimScaleIsZero ==
  ScaleBound =>
    /\ img_width = 0 =>
         /\ x_scale = (IF max_loc > 0 THEN FZero ELSE FOne)
         /\ \A k \in 1..Len(texts) : \A n \in 1..Len(texts[k].box) :
              texts[k].box[n][1] = 0
    /\ img_height = 0 =>
         /\ y_scale = (IF max_loc > 0 THEN FZero ELSE FOne)
         /\ \A k \in 1..Len(texts) : \A n \in 1..Len(texts[k].box) :
              texts[k].box[n][2] = 0
    /\ (pc = "done" /\ (img_width = 0 \/ img_height = 0)) =>
         Len(texts) = Len(RecordPairs)

\* C2 witness: a call with image width 0 and max_loc > 0 has returned a
\* record whose y coordinates are scaled.
C2_Witness ==
  /\ pc = "done"
  /\ img_width = 0
  /\ max_loc > 0
  /\ \E k \in 1..Len(texts) : texts[k].box[3][2] > 0

\* ------------------------------------------------------------------------
\* C3
\* ------------------------------------------------------------------------

\* C3 (as claimed): the polygon of a group of 8 or more values v is
\* (floor(v0*W/M), floor(v1*H/M)), ..., (floor(v6*W/M), floor(v7*H/M)), M
\* being max_loc > 0.
C3_PolygonIsExactFloor ==
  pc = "done" =>
    \A k \in 1..Len(texts) :
      LET v == GroupOf(k)
      IN  (Len(v) >= 8 /\ max_loc > 0) =>
            texts[k].box =
              <<<<(v[1] * img_width) \div max_loc, (v[2] * img_height) \div max_loc>>,
                <<(v[3] * img_width) \div max_loc, (v[4] * img_height) \div max_loc>>,
                <<(v[5] * img_width) \div max_loc, (v[6] * img_height) \div max_loc>>,
                <<(v[7] * img_width) \div max_loc, (v[8] * img_height) \div max_loc>>>>

\* ------------------------------------------------------------------------
\* C4
\* ------------------------------------------------------------------------

\* C4: the polygon of a group of 4 to 7 values is the axis-aligned rectangle
\* (x1,y1), (x2,y1), (x2,y2), (x1,y2) of the scaled first four values, and
\* the documented scenario gives the documented records.
C4_BoundingBox ==
  pc = "done" =>
    /\ \A k \in 1..Len(texts) :
         LET v  == GroupOf(k)
             x1 == ToPixel(v[1], x_scale)
             y1 == ToPixel(v[2], y_scale)
             x2 == ToPixel(v[3], x_scale)
             y2 == ToPixel(v[4], y_scale)
         IN  (Len(v) >= 4 /\ Len(v) <= 7) =>
               texts[k].box = <<<<x1, y1>>, <<x2, y1>>, <<x2, y2>>, <<x1, y2>>>>
    /\ (content = HelloWorld /\ image_size = <<972, 972>>) =>
         texts = <<[text |-> <<"H", "e", "l", "l", "o">>,
                    box  |-> <<<<100, 100>>, <<200, 100>>, <<200, 200>>, <<100, 200>>>>],
                   [text |-> <<"W", "o", "r", "l", "d">>,
                    box  |-> <<<<972, 0>>, <<972, 0>>, <<972, 100>>, <<972, 100>>>>]>>

\* C4 witness: the documented scenario has returned its two records.
C4_Witness ==
  /\ pc = "done"
  /\ content = HelloWorld
  /\ image_size = <<972, 972>>
  /\ Len(texts) = 2
  /\ Len(GroupOf(1)) = 4

\* ------------------------------------------------------------------------
\* C5
\* ------------------------------------------------------------------------

\* C5: a text whose group has fewer than 4 values gets the polygon
\* (0,0),(0,0),(0,0),(0,0), and every non-empty captured text of the
\* response still gets its record, in order.
C5_ShortGroupZeroBox ==
  pc = "done" =>
    /\ Len(texts) = Len(RecordPairs)
    /\ \A k \in 1..Len(texts) :
         /\ texts[k].text = Strip(RecordPairs[k].text_chunk)
         /\ Len(texts[k].box) = 4
         /\ Len(GroupOf(k)) < 4 =>
              texts[k].box = <<<<0, 0>>, <<0, 0>>, <<0, 0>>, <<0, 0>>>>

\* C5 witness: a call has returned a record of a group of fewer than 4
\* values beside a record with a scaled box.
C5_Witness ==
  /\ pc = "done"
  /\ \E k, n \in 1..Len(texts) :
       /\ Len(GroupOf(k)) < 4
       /\ Len(GroupOf(n)) >= 4
       /\ texts[n].box[3][2] > 0

\* ------------------------------------------------------------------------
\* C6
\* ------------------------------------------------------------------------

\* C6 (as claimed): the response without its extra markers gives the same
\* records for the same image size.
C6_ExtrasDoNotInfluence ==
  pc = "done" =>
    texts = parse_loc_tags(StripExtras(content, 1), image_size)

\* C6 (amended): the extra markers are used for no coordinate, but count
\* for max_loc: the response without its extra markers gives the same
\* records for the same image size provided its max_loc is the same.
C6_ExtrasOnlyThroughMaxLoc ==
  pc = "done" =>
    LET stripped == StripExtras(content, 1)
    IN  MaxLoc(AllLocValues(FindAll(stripped, 1))) = max_loc =>
          texts = parse_loc_tags(stripped, image_size)

\* C6 witness: a response with an extra marker that leaves max_loc as it is
\* has returned a record with a scaled box.
C6_Witness ==
  /\ pc = "done"
  /\ StripExtras(content, 1) # content
  /\ MaxLoc(AllLocValues(FindAll(StripExtras(content, 1), 1))) = max_loc
  /\ \E k \in 1..Len(texts) :
       /\ Len(GroupOf(k)) \in {5, 6, 7} \/ Len(GroupOf(k)) > 8
       /\ texts[k].box[3][2] > 0

\* ------------------------------------------------------------------------
\* C7
\* ------------------------------------------------------------------------

\* C7 (as claimed): the records are, in order, the text fragments that are
\* non-empty after trimming and followed by a marker token, each record's
\* text the whole trimmed fragment.
C7_OneRecordPerFragment ==
  pc = "done" =>
    /\ Len(texts) = Len(Fragments(content, 1))
    /\ \A k \in 1..Len(texts) : texts[k].text = Fragments(content, 1)[k]

\* ------------------------------------------------------------------------
\* C8
\* ------------------------------------------------------------------------

\* C8: a response without a marker token gives no record, and the text
\* after the last marker token gives none: the response cut after its last
\* marker token gives the same records.
C8_NoMarkerNoRecord ==
  pc = "done" =>
    /\ TokenValues(content, 1) = <<>> => texts = <<>>
    /\ texts = parse_loc_tags(CutTrailing(content), image_size)
    /\ Len(texts) <= Len(TokenValues(content, 1))

\* C8 witness: a response with text after its last marker token has
\* returned a record.
C8_Witness ==
  /\ pc = "done"
  /\ CutTrailing(content) # content
  /\ Strip(SubSeq(content, LastTokenEnd(content, 1, 1), Len(content))) # <<>>
  /\ Len(texts) >= 1

\* ------------------------------------------------------------------------
\* C9
\* ------------------------------------------------------------------------

\* The outcome of a path that exists: its OCR result, or the error entry.
Outcome(path) == IF fate[path] = "ok" THEN OcrResult(path) ELSE ErrorEntry

\* C9 (as claimed): after the loop, results holds for every path of
\* image_files that exists an entry recording that path's own outcome.
C9_EveryOutcomeKept ==
  mpc = "done" =>
    \A k \in 1..Len(image_files) :
      fate[image_files[k]] # "missing" =>
        /\ FileName(image_files[k]) \in DOMAIN results
        /\ results[FileName(image_files[k])] = Outcome(image_files[k])

\* ------------------------------------------------------------------------
\* C10
\* ------------------------------------------------------------------------

\* C10: with a positive image width and height every polygon has 4 points
\* and every point lies inside the image.
C10_PointsInsideImage ==
  (img_width > 0 /\ img_height > 0) =>
    \A k \in 1..Len(texts) :
      /\ Len(texts[k].box) = 4
      /\ \A n \in 1..Len(texts[k].box) :
           /\ 0 <= texts[k].box[n][1] /\ texts[k].box[n][1] <= img_width
           /\ 0 <= texts[k].box[n][2] /\ texts[k].box[n][2] <= img_height

\* C10 witness: a call has returned a point on the right edge of the
\* image, from a marker equal to max_loc.
C10_Witness ==
  /\ pc = "done"
  /\ img_width > 0
  /\ img_height > 0
  /\ \E k \in 1..Len(texts) :
       /\ Len(GroupOf(k)) >= 4
       /\ GroupOf(k)[3] = max_loc
       /\ texts[k].box[2][1] = img_width

====
